---- MODULE Spec2Model ----
(***************************************************************************)
(* A model of angr's fast data dependence graph, DDG (angr/analyses/ddg.py) *)
(*                                                                         *)
(* The worklist loop of DDG._construct, the trace replay of DDG._track and *)
(* the helpers _def_lookup, _kill and _add_edge are modelled statement by  *)
(* statement.  Python objects that the code shares by reference (the sets  *)
(* of code locations stored in the per-node dictionaries) are modelled     *)
(* with an explicit heap, so that two dictionary entries that hold the     *)
(* same set object stay the same object in the model.                      *)
(***************************************************************************)
EXTENDS Integers, Sequences, FiniteSets, TLC

\* ------------------------------------------------------------------ bounds
\* Largest number of CFG nodes of the parametric CFG families (chains, rings).
MaxNodes == 3
\* Largest number of CFG nodes whose trace is not empty.
MaxActive == 3

\* Largest number of nodes with a trace in the inputs of LoopSpec.
MaxLoopActive == 2

\* ------------------------------------------------------- dictionaries
\* A Python dict is a function whose DOMAIN is its key set.
EmptyDict == [k \in {} |-> {}]

DictPut(d, k, v) == [x \in (DOMAIN d) \cup {k} |-> IF x = k THEN v ELSE d[x]]

DictDel(d, k) == [x \in (DOMAIN d) \ {k} |-> d[x]]

\* defaultdict(list): a missing key reads as the empty list.  The pending
\* groups never hold the same edge tuple twice (a group is emptied before a
\* read refills it, and a lookup returns one entry per code location), so a
\* list of edge tuples is kept as a set.
DictGet(d, k) == IF k \in DOMAIN d THEN d[k] ELSE {}

\* All orders in which Python may iterate over the keys of a dict or a set.
Orders(S) == {p \in [1..Cardinality(S) -> S] : \A i, j \in 1..Cardinality(S) : p[i] = p[j] => i = j}

\* ------------------------------------------------------- data model
CodeLocation(bbl_addr, stmt_idx) == <<bbl_addr, stmt_idx>>

SimRegisterVariable(offset, size) == [kind |-> "reg", id |-> offset, size |-> size]

SimMemoryVariable(addr, size) == [kind |-> "mem", id |-> addr, size |-> size]

\* The `data' label of an edge is a Variable (keep_data) or a temporary id;
\* both are kept as records of one shape, NoData standing for an absent key.
TmpData(tmp) == [kind |-> "tmp", id |-> tmp, size |-> 0]

NoData == [kind |-> "none", id |-> 0, size |-> 0]

\* The label dict of an edge: the keys `type', `data', `count', `subtype'.
\* An absent `count' is NoCount, an absent `subtype' the empty tuple (a
\* present one holds at least one tag).
NoCount == -1

Labels(type, data, count) == [type |-> type, data |-> data, count |-> count, subtype |-> <<>>]

\* ------------------------------------------------------- actions of a trace
NoDeps == [addr_reg |-> <<>>, addr_tmp |-> <<>>, data_reg |-> <<>>, data_tmp |-> <<>>]

Action(type, action, loc, offset, size, tmp, addrs, tmp_deps, deps) ==
    [type |-> type, action |-> action, loc |-> loc, offset |-> offset, size |-> size,
     tmp |-> tmp, addrs |-> addrs, tmp_deps |-> tmp_deps, deps |-> deps]

RegRead(loc, offset, size) == Action("reg", "read", loc, offset, size, 0, <<>>, <<>>, NoDeps)

RegWrite(loc, offset, size) == Action("reg", "write", loc, offset, size, 0, <<>>, <<>>, NoDeps)

TmpRead(loc, tmp) == Action("tmp", "read", loc, 0, 0, tmp, <<>>, <<>>, NoDeps)

TmpWrite(loc, tmp) == Action("tmp", "write", loc, 0, 0, tmp, <<>>, <<>>, NoDeps)

Exit(loc, tmp_deps) == Action("exit", "none", loc, 0, 0, 0, <<>>, tmp_deps, NoDeps)

\* addrs is the order in which the loop over addr_list visits the addresses.
MemRead(loc, addrs, size, deps) == Action("mem", "read", loc, 0, size, 0, addrs, <<>>, deps)

MemWrite(loc, addrs, size, deps) == Action("mem", "write", loc, 0, size, 0, addrs, <<>>, deps)

\* ------------------------------------------------------- state
VARIABLES
    inp,                 \* the CFG with its final states and traces, and keep_data (read only)
    worklist,            \* _construct: the list of nodes to process
    worklist_set,        \* _construct: the same nodes as a set
    live_defs_per_node,  \* _construct: node -> (Variable -> the set object stored for it)
    heap,                \* the set objects the stored dicts refer to: object -> code locations
    graph,               \* self._graph: the edges, each with its label dict
    pc,                  \* position in _construct / _track
    node,                \* _construct: the node popped last
    si,                  \* _construct: index of the final state the for loop is at
    ai,                  \* _track: index of the action the for loop is at
    live_defs,           \* _track: the copied dict (Variable -> set object)
    temps,               \* _track: temporary id -> code location
    temps_to_edges,      \* _track: temporary id -> pending edge tuples
    regs_to_edges,       \* _track: register offset -> pending edge tuples
    tracked,             \* history: the (node, state index) pairs _track was called for
    offers,              \* history: the edge tuples handed to _add_edge
    requeued             \* history: the nodes lines 190-192 appended to the worklist

vars == <<inp, worklist, worklist_set, live_defs_per_node, heap, graph, pc, node, si, ai,
          live_defs, temps, temps_to_edges, regs_to_edges, tracked, offers, requeued>>

\* ------------------------------------------------------- set objects
\* live_defs.copy() is a shallow copy: an entry of the copy is either the set
\* object of the stored dict it was copied from (named by the dict slot
\* <<node, variable>> that stored the object first), or a set that _kill
\* created during this replay and no stored dict refers to yet.
NoOwner == <<0, NoData>>

SharedSet(owner) == [fresh |-> FALSE, owner |-> owner, locs |-> {}]

FreshSet(locs) == [fresh |-> TRUE, owner |-> NoOwner, locs |-> locs]

\* The code locations in a set object.
Deref(h, obj) == IF obj.fresh THEN obj.locs ELSE h[obj.owner]

\* ------------------------------------------------------- _add_edge
HasEdge(g, s_a, s_b) == \E e \in g : e.src = s_a /\ e.dst = s_b

Edge(s_a, s_b, labels) == [src |-> s_a, dst |-> s_b, labels |-> labels]

\* dict.update on a label dict: the keys of new replace those of old.
UpdateLabels(old, new) ==
    [type |-> new.type,
     data |-> IF new.data # NoData THEN new.data ELSE old.data,
     count |-> IF new.count # NoCount THEN new.count ELSE old.count,
     subtype |-> IF new.subtype # <<>> THEN new.subtype ELSE old.subtype]

\* DiGraph.add_edge(s_a, s_b, **edge_labels): self._graph is a DiGraph (line
\* 37), which keeps one attribute dict per pair and updates it when the pair
\* has an edge already.
networkx_add_edge(g, s_a, s_b, edge_labels) ==
    IF HasEdge(g, s_a, s_b)
    THEN {IF e.src = s_a /\ e.dst = s_b THEN Edge(s_a, s_b, UpdateLabels(e.labels, edge_labels))
          ELSE e : e \in g}
    ELSE g \cup {Edge(s_a, s_b, edge_labels)}

\* An insertion that adds the edge tuple as one more edge of its pair, as a
\* graph of parallel edges without the test of line 419 would.
AddEdgeUnchecked(g, s_a, s_b, edge_labels) == g \cup {Edge(s_a, s_b, edge_labels)}

\* _add_edge that lets the labels derived last replace the labels of the edge.
AddEdgeOverwriting(g, s_a, s_b, edge_labels) ==
    {e \in g : ~(e.src = s_a /\ e.dst = s_b)} \cup {Edge(s_a, s_b, edge_labels)}

\* _add_edge with the two code locations exchanged.
AddEdgeReversed(g, s_a, s_b, edge_labels) ==
    IF ~HasEdge(g, s_b, s_a) THEN networkx_add_edge(g, s_b, s_a, edge_labels) ELSE g

_add_edge(g, s_a, s_b, edge_labels) ==
    IF ~HasEdge(g, s_a, s_b) THEN networkx_add_edge(g, s_a, s_b, edge_labels) ELSE g

\* ------------------------------------------------------- _def_lookup
RECURSIVE DefLookupLoop(_, _, _, _)
DefLookupLoop(code_loc_set, variable, keep_data, prevdefs) ==
    IF code_loc_set = {} THEN prevdefs
    ELSE LET code_loc == CHOOSE c \in code_loc_set : TRUE
             type_ == IF variable.kind = "mem" THEN "mem" ELSE "reg"
             count == IF code_loc \in DOMAIN prevdefs THEN prevdefs[code_loc].count + 1 ELSE 0
             labels == IF keep_data THEN Labels(type_, variable, NoCount)
                       ELSE Labels(type_, NoData, count)
         IN DefLookupLoop(code_loc_set \ {code_loc}, variable, keep_data,
                          DictPut(prevdefs, code_loc, labels))

_def_lookup(h, ld, variable, keep_data) ==
    IF variable \in DOMAIN ld
    THEN DefLookupLoop(Deref(h, ld[variable]), variable, keep_data, EmptyDict)
    ELSE EmptyDict

\* ------------------------------------------------------- _kill
_kill(ld, variable, code_loc) == DictPut(ld, variable, FreshSet({code_loc}))

\* ------------------------------------------------------- pending edge groups
AppendTag(labels, v) == [labels EXCEPT !.subtype = Append(@, v)]

\* dict_[key] on a defaultdict creates the key when it is missing.
_annotate_edges_in_dict(dict_, key, subtype) ==
    DictPut(dict_, key, {[e EXCEPT !.labels = AppendTag(@, subtype)] : e \in DictGet(dict_, key)})

RECURSIVE AddEdges(_, _)
AddEdges(g, edges) ==
    IF edges = {} THEN g
    ELSE LET e == CHOOSE x \in edges : TRUE
         IN AddEdges(_add_edge(g, e.src, e.dst, e.labels), edges \ {e})

\* The graph after _dump_edge_from_dict(dict_, key); the del is DictDel.
_dump_edge_from_dict(g, dict_, key) == AddEdges(g, DictGet(dict_, key))

RECURSIVE AnnotateAll(_, _, _)
AnnotateAll(dict_, keys, subtype) ==
    IF keys = <<>> THEN dict_
    ELSE AnnotateAll(_annotate_edges_in_dict(dict_, Head(keys), subtype), Tail(keys), subtype)

\* ------------------------------------------------------- _track, one action
\* The state of one replay: t.live_defs, t.temps, t.temps_to_edges,
\* t.regs_to_edges and the graph t.graph.  t.offered is history: the edge
\* tuples handed to _add_edge.
TrackState(ld, tm, tte, rte, g, off) ==
    [live_defs |-> ld, temps |-> tm, temps_to_edges |-> tte, regs_to_edges |-> rte,
     graph |-> g, offered |-> off]

\* The body of `for addr in addr_list' for one address of a memory action.
TrackMemAddr(t, a, addr, h, keep_data) ==
    LET variable == SimMemoryVariable(addr, a.size)
        prevdefs == _def_lookup(h, t.live_defs, variable, keep_data)
        edges == IF a.action = "read" THEN {Edge(c, a.loc, prevdefs[c]) : c \in DOMAIN prevdefs}
                 ELSE {}
        ld1 == IF a.action = "write" THEN _kill(t.live_defs, variable, a.loc) ELSE t.live_defs
        rte1 == AnnotateAll(AnnotateAll(t.regs_to_edges, a.deps.addr_reg, "mem_addr"),
                            a.deps.data_reg, "mem_data")
        tte1 == AnnotateAll(AnnotateAll(t.temps_to_edges, a.deps.addr_tmp, "mem_addr"),
                            a.deps.data_tmp, "mem_data")
    IN TrackState(ld1, t.temps, tte1, rte1, AddEdges(t.graph, edges), t.offered \cup edges)

RECURSIVE TrackMemLoop(_, _, _, _, _)
TrackMemLoop(t, a, addrs, h, keep_data) ==
    IF addrs = <<>> THEN t
    ELSE TrackMemLoop(TrackMemAddr(t, a, Head(addrs), h, keep_data), a, Tail(addrs), h, keep_data)

TrackMemAction(t, a, h, keep_data) == TrackMemLoop(t, a, a.addrs, h, keep_data)

TrackRegRead(t, a, h, keep_data) ==
    LET variable == SimRegisterVariable(a.offset, a.size)
        prevdefs == _def_lookup(h, t.live_defs, variable, keep_data)
        dumped == a.offset \in DOMAIN t.regs_to_edges
        g1 == IF dumped THEN _dump_edge_from_dict(t.graph, t.regs_to_edges, a.offset) ELSE t.graph
        off1 == IF dumped THEN t.offered \cup t.regs_to_edges[a.offset] ELSE t.offered
        rte1 == IF dumped THEN DictDel(t.regs_to_edges, a.offset) ELSE t.regs_to_edges
        queued == {Edge(c, a.loc, prevdefs[c]) : c \in DOMAIN prevdefs}
        rte2 == IF queued = {} THEN rte1 ELSE DictPut(rte1, a.offset, queued)
    IN TrackState(t.live_defs, t.temps, t.temps_to_edges, rte2, g1, off1)

TrackRegWrite(t, a) ==
    TrackState(_kill(t.live_defs, SimRegisterVariable(a.offset, a.size), a.loc),
               t.temps, t.temps_to_edges, t.regs_to_edges, t.graph, t.offered)

TrackRegAction(t, a, h, keep_data) ==
    IF a.action = "read" THEN TrackRegRead(t, a, h, keep_data) ELSE TrackRegWrite(t, a)

\* Queue the edge tuple (temps[tmp], loc, labels) under key tmp, emitting the
\* group that is pending under tmp first (lines 325-331 and 341-347).
QueueTmpEdge(t, tmp, loc, labels) ==
    LET prev_code_loc == t.temps[tmp]
        edge_tuple == Edge(prev_code_loc, loc, labels)
        dumped == tmp \in DOMAIN t.temps_to_edges
        g1 == IF dumped THEN _dump_edge_from_dict(t.graph, t.temps_to_edges, tmp) ELSE t.graph
        off1 == IF dumped THEN t.offered \cup t.temps_to_edges[tmp] ELSE t.offered
        tte1 == IF dumped THEN DictDel(t.temps_to_edges, tmp) ELSE t.temps_to_edges
    IN TrackState(t.live_defs, t.temps, DictPut(tte1, tmp, {edge_tuple}), t.regs_to_edges, g1, off1)

TmpLabels(tmp) == Labels("tmp", TmpData(tmp), NoCount)

ExitLabels(tmp) == Labels("exit", TmpData(tmp), NoCount)

TrackTmpRead(t, a) == QueueTmpEdge(t, a.tmp, a.loc, TmpLabels(a.tmp))

TrackTmpWrite(t, a) ==
    TrackState(t.live_defs, DictPut(t.temps, a.tmp, a.loc), t.temps_to_edges, t.regs_to_edges,
               t.graph, t.offered)

TrackTmpAction(t, a) == IF a.action = "read" THEN TrackTmpRead(t, a) ELSE TrackTmpWrite(t, a)

RECURSIVE TrackExitLoop(_, _, _)
TrackExitLoop(t, a, tmp_deps) ==
    IF tmp_deps = <<>> THEN t
    ELSE TrackExitLoop(QueueTmpEdge(t, Head(tmp_deps), a.loc, ExitLabels(Head(tmp_deps))),
                       a, Tail(tmp_deps))

TrackExitAction(t, a) == TrackExitLoop(t, a, a.tmp_deps)

\* The body of `for a in action_list' (lines 260-347).
TrackAction(t, a, h, keep_data) ==
    CASE a.type = "mem" -> TrackMemAction(t, a, h, keep_data)
      [] a.type = "reg" -> TrackRegAction(t, a, h, keep_data)
      [] a.type = "tmp" -> TrackTmpAction(t, a)
      [] a.type = "exit" -> TrackExitAction(t, a)

\* ------------------------------------------------------- _track, the final dump
RECURSIVE DumpInOrder(_, _, _)
DumpInOrder(g, dict_, keys) ==
    IF keys = <<>> THEN g
    ELSE DumpInOrder(_dump_edge_from_dict(g, dict_, Head(keys)), dict_, Tail(keys))

\* `for key in dict_: _dump_edge_from_dict(dict_, key, del_key=False)': the
\* keys come in any order.
DumpAll(g, dict_) == {DumpInOrder(g, dict_, p) : p \in Orders(DOMAIN dict_)}

\* The graphs lines 350-353 can leave: the register groups, then the
\* temporary groups.
FinalDump(t) == UNION {DumpAll(g1, t.temps_to_edges) : g1 \in DumpAll(t.graph, t.regs_to_edges)}

\* The edge tuples pending in the groups of dict_.
Pending(dict_) == UNION {dict_[k] : k \in DOMAIN dict_}

\* ------------------------------------------------------- the inputs
\* A CFG node is its address, 1..n; node 1 is the node at self._start.  A final
\* state is [jumpkind, ip, actions]: ip is the address state.ip concretises to,
\* NoAddr when no node is at that address.
NoAddr == 0

FinalState(jumpkind, ip) == [jumpkind |-> jumpkind, ip |-> ip]

Cfg(n, succ, states) == [n |-> n, succ |-> succ, states |-> states]

\* 1 -> 2 -> ... -> k; the last node returns to an address outside the CFG.
Chain(k) ==
    Cfg(k, [i \in 1..k |-> IF i < k THEN {i + 1} ELSE {}],
        [i \in 1..k |-> IF i < k THEN <<FinalState("Ijk_Boring", i + 1)>>
                        ELSE <<FinalState("Ijk_Ret", NoAddr)>>])

\* 1 -> 2 -> ... -> k -> 1.
Ring(k) ==
    Cfg(k, [i \in 1..k |-> IF i < k THEN {i + 1} ELSE {1}],
        [i \in 1..k |-> <<FinalState("Ijk_Boring", IF i < k THEN i + 1 ELSE 1)>>])

\* Node 1 calls node 2 (and has the fall-through-after-call state to node 3),
\* node 2 returns to node 3 and has a state with an unresolved target, node 3
\* has a single fall-through-after-call state that leads back to node 1.
CallCfg ==
    Cfg(3, (1 :> {2, 3}) @@ (2 :> {3}) @@ (3 :> {1}),
        (1 :> <<FinalState("Ijk_Call", 2), FinalState("Ijk_FakeRet", 3)>>)
        @@ (2 :> <<FinalState("Ijk_Boring", NoAddr), FinalState("Ijk_Ret", 3)>>)
        @@ (3 :> <<FinalState("Ijk_FakeRet", 1)>>))

\* 1 -> {2, 3} -> 4; node 4 returns to an address outside the CFG.
Diamond ==
    Cfg(4, (1 :> {2, 3}) @@ (2 :> {4}) @@ (3 :> {4}) @@ (4 :> {}),
        (1 :> <<FinalState("Ijk_Boring", 2), FinalState("Ijk_Boring", 3)>>)
        @@ (2 :> <<FinalState("Ijk_Boring", 4)>>)
        @@ (3 :> <<FinalState("Ijk_Boring", 4)>>)
        @@ (4 :> <<FinalState("Ijk_Ret", NoAddr)>>))

\* The diamond with a loop at node 2: 2 -> 4 and 2 -> 2.
DiamondLoop ==
    Cfg(4, (1 :> {2, 3}) @@ (2 :> {2, 4}) @@ (3 :> {4}) @@ (4 :> {}),
        (1 :> <<FinalState("Ijk_Boring", 2), FinalState("Ijk_Boring", 3)>>)
        @@ (2 :> <<FinalState("Ijk_Boring", 4), FinalState("Ijk_Boring", 2)>>)
        @@ (3 :> <<FinalState("Ijk_Boring", 4)>>)
        @@ (4 :> <<FinalState("Ijk_Ret", NoAddr)>>))

\* 1 -> {2, 3}, 2 -> 3, 3 -> 1: node 3 is reached from node 1 and from node 2.
Triangle ==
    Cfg(3, (1 :> {2, 3}) @@ (2 :> {3}) @@ (3 :> {1}),
        (1 :> <<FinalState("Ijk_Boring", 2), FinalState("Ijk_Boring", 3)>>)
        @@ (2 :> <<FinalState("Ijk_Boring", 3)>>)
        @@ (3 :> <<FinalState("Ijk_Boring", 1)>>))

Cfgs == {Chain(k) : k \in 2..MaxNodes} \cup {Ring(k) : k \in 2..MaxNodes}
        \cup {CallCfg, Triangle, Diamond, DiamondLoop}

\* The registers, temporaries and addresses of the traces.
R0 == 0
R1 == 1
T0 == 0
T1 == 1
A0 == 0
A1 == 1

Deps(addr_reg, addr_tmp, data_reg, data_tmp) ==
    [addr_reg |-> addr_reg, addr_tmp |-> addr_tmp, data_reg |-> data_reg, data_tmp |-> data_tmp]

\* The action log of the block at address n, by kind of block.
\*   def:  PUT(r0) = <const>
\*   use:  t0 = GET:I32(r0); t1 = GET:I64(r0); if (t0) goto ...; goto t1
\*   copy: t0 = GET:I32(r0); PUT(r1) = t0
\*   mem:  t0 = GET:I32(r0); t1 = LDle:I32(t0); STle(t0) = t1 (two resolved addresses)
\*   load: a load from an address that resolves to two addresses
Block(kind, n) ==
    CASE kind = "nop" -> <<>>
      [] kind = "def" -> <<RegWrite(CodeLocation(n, 2), R0, 4)>>
      [] kind = "use" -> <<RegRead(CodeLocation(n, 0), R0, 4), TmpWrite(CodeLocation(n, 0), T0),
                           RegRead(CodeLocation(n, 1), R0, 8), TmpWrite(CodeLocation(n, 1), T1),
                           TmpRead(CodeLocation(n, 2), T0), Exit(CodeLocation(n, 2), <<T0>>),
                           Exit(CodeLocation(n, 3), <<T1>>)>>
      [] kind = "copy" -> <<RegRead(CodeLocation(n, 0), R0, 4), TmpWrite(CodeLocation(n, 0), T0),
                            TmpRead(CodeLocation(n, 1), T0), RegWrite(CodeLocation(n, 1), R1, 4)>>
      [] kind = "mem" -> <<RegRead(CodeLocation(n, 0), R0, 4), TmpWrite(CodeLocation(n, 0), T0),
                           TmpRead(CodeLocation(n, 1), T0),
                           MemRead(CodeLocation(n, 1), <<A0>>, 4, Deps(<<R0>>, <<T0>>, <<>>, <<>>)),
                           TmpWrite(CodeLocation(n, 1), T1),
                           TmpRead(CodeLocation(n, 2), T0), TmpRead(CodeLocation(n, 2), T1),
                           MemWrite(CodeLocation(n, 2), <<A0, A1>>, 4,
                                    Deps(<<>>, <<T0>>, <<>>, <<T1>>))>>
      [] kind = "load" -> <<MemRead(CodeLocation(n, 0), <<A0, A1>>, 4, NoDeps)>>

Kinds == {"nop", "def", "use", "copy", "mem", "load"}

\* The programs over a CFG: a kind of block for every node, at most MaxActive
\* of them with a trace that is not empty.
Programs(cfg) ==
    {p \in [1..cfg.n -> Kinds] : Cardinality({i \in 1..cfg.n : p[i] # "nop"}) <= MaxActive}

Input(cfg, prog, keep_data) == [cfg |-> cfg, prog |-> prog, keep_data |-> keep_data]

Inputs == UNION {{Input(c, p, k) : p \in Programs(c), k \in BOOLEAN} : c \in Cfgs}

\* node.final_states, and state.log.actions of the node's i-th final state
\* (every final state of a block carries the block's action log).
final_states(in, n) == in.cfg.states[n]

action_list(in, n, i) == Block(in.prog[n], n)

\* self._cfg.graph.successors(node)
successors(in, n) == in.cfg.succ[n]

\* ------------------------------------------------------- networkx.dfs_successors
\* Depth-first search from source; adj gives, for every node, the order in
\* which its successors are visited.  The result maps every node that has a
\* child in the search tree to the list of its children.
RECURSIVE DfsVisit(_, _, _, _)
DfsVisit(adj, n, i, st) ==
    IF i > Len(adj[n]) THEN st
    ELSE LET c == adj[n][i]
         IN IF c \in st.visited THEN DfsVisit(adj, n, i + 1, st)
            ELSE LET children == IF n \in DOMAIN st.d THEN st.d[n] ELSE <<>>
                     st1 == [visited |-> st.visited \cup {c},
                             d |-> DictPut(st.d, n, Append(children, c))]
                 IN DfsVisit(adj, n, i + 1, DfsVisit(adj, c, 1, st1))

dfs_successors(adj, source) == DfsVisit(adj, source, 1, [visited |-> {source}, d |-> EmptyDict]).d

\* The orders in which the adjacency dicts of the CFG may list the successors.
AdjOrders(in) == {adj \in [1..in.cfg.n -> UNION {Orders(successors(in, n)) : n \in 1..in.cfg.n}] :
                     \A n \in 1..in.cfg.n : adj[n] \in Orders(successors(in, n))}

\* list(networkx.dfs_successors(self._cfg.graph, initial_node)): the keys of
\* the dict, in any order (lines 126-129).
InitialWorklists(in) ==
    UNION {Orders(DOMAIN dfs_successors(adj, 1)) : adj \in AdjOrders(in)}

\* set(worklist)
SetOf(seq) == {seq[i] : i \in 1..Len(seq)}

\* ------------------------------------------------------- _construct, the merge
\* Lines 175-186 with the flag set whether or not the merge added something.
MergeVarAlwaysChanged(m, new_defs, var, succ) ==
    LET obj == new_defs[var]
        target == IF var \in DOMAIN m.dest THEN m.dest[var]
                  ELSE IF obj.fresh THEN <<succ, var>> ELSE obj.owner
        old == IF target \in DOMAIN m.heap THEN m.heap[target] ELSE {}
    IN [dest |-> DictPut(m.dest, var, target),
        heap |-> DictPut(m.heap, target, old \cup Deref(m.heap, obj)),
        changed |-> TRUE]

\* Lines 175-186 for one variable; m.dest is defs_for_next_node, m.heap the
\* set objects, m.changed the flag.
MergeVar(m, new_defs, var, succ) ==
    LET obj == new_defs[var]
    IN IF var \notin DOMAIN m.dest
       THEN \* defs_for_next_node[var] = code_loc_set: the same set object
            IF obj.fresh
            THEN [dest |-> DictPut(m.dest, var, <<succ, var>>),
                  heap |-> DictPut(m.heap, <<succ, var>>, obj.locs),
                  changed |-> TRUE]
            ELSE [dest |-> DictPut(m.dest, var, obj.owner), heap |-> m.heap, changed |-> TRUE]
       ELSE LET target == m.dest[var]
                added == Deref(m.heap, obj) \ m.heap[target]
            IN [dest |-> m.dest,
                heap |-> [m.heap EXCEPT ![target] = @ \cup added],
                changed |-> m.changed \/ added # {}]

RECURSIVE MergeLoop(_, _, _, _)
MergeLoop(m, new_defs, todo, succ) ==
    IF todo = {} THEN m
    ELSE LET var == CHOOSE v \in todo : TRUE
         IN MergeLoop(MergeVar(m, new_defs, var, succ), new_defs, todo \ {var}, succ)

\* Lines 168-186: new_defs merged into the dict stored for successing_node.
Merge(ldpn, h, new_defs, successing_node) ==
    LET defs_for_next_node == IF successing_node \in DOMAIN ldpn THEN ldpn[successing_node]
                              ELSE EmptyDict
        m == MergeLoop([dest |-> defs_for_next_node, heap |-> h, changed |-> FALSE],
                       new_defs, DOMAIN new_defs, successing_node)
    IN [live_defs_per_node |-> DictPut(ldpn, successing_node, m.dest),
        heap |-> m.heap, changed |-> m.changed]

\* ------------------------------------------------------- _construct, the re-enqueue
Queue(wl, ws) == [worklist |-> wl, worklist_set |-> ws]

\* Lines 190-192.
EnqueueSuccessor(q, successing_node) ==
    IF successing_node \notin q.worklist_set
    THEN Queue(Append(q.worklist, successing_node), q.worklist_set \cup {successing_node})
    ELSE q

\* Lines 197-199 for one node s of the depth-first walk: the test is on
\* successing_node.
EnqueueReachable(q, successing_node, s) ==
    IF successing_node \notin q.worklist_set
    THEN Queue(Append(q.worklist, s), q.worklist_set \cup {s})
    ELSE q

RECURSIVE EnqueueList(_, _, _)
EnqueueList(q, successing_node, ss) ==
    IF ss = <<>> THEN q
    ELSE EnqueueList(EnqueueReachable(q, successing_node, Head(ss)), successing_node, Tail(ss))

RECURSIVE EnqueueValues(_, _, _, _)
EnqueueValues(q, successing_node, d, keys) ==
    IF keys = {} THEN q
    ELSE LET k == CHOOSE x \in keys : TRUE
         IN EnqueueValues(EnqueueList(q, successing_node, d[k]), successing_node, d, keys \ {k})

\* Lines 188-199.
ReEnqueue(in, q, successing_node) ==
    LET adj == [n \in 1..in.cfg.n |-> CHOOSE p \in Orders(successors(in, n)) : TRUE]
        all_successors_dict == dfs_successors(adj, successing_node)
    IN EnqueueValues(EnqueueSuccessor(q, successing_node), successing_node,
                     all_successors_dict, DOMAIN all_successors_dict)

\* ------------------------------------------------------- the program
\* The state after DDG.__init__ has set its fields and _construct has built
\* the worklist (lines 34-40, 126-135).
Init ==
    /\ inp \in Inputs
    /\ worklist \in InitialWorklists(inp)
    /\ worklist_set = SetOf(worklist)
    /\ live_defs_per_node = EmptyDict
    /\ heap = EmptyDict
    /\ graph = {}
    /\ pc = "loop"
    /\ node = 0
    /\ si = 0
    /\ ai = 0
    /\ live_defs = EmptyDict
    /\ temps = EmptyDict
    /\ temps_to_edges = EmptyDict
    /\ regs_to_edges = EmptyDict
    /\ tracked = {}
    /\ offers = {}
    /\ requeued = {}

\* The final state the for loop of line 154 is at.
CurState == final_states(inp, node)[si]

\* Line 161.
corresponding_successors(in, n, state) == {x \in successors(in, n) : x = state.ip}

\* A loop that skips no fall-through-after-call state.
NeverSkipsFakeRet(in, n, state) == FALSE

\* Line 155.
IsSkippedFakeRet(in, n, state) == state.jumpkind = "Ijk_FakeRet" /\ Len(final_states(in, n)) > 1

\* A final state the loop does not `continue' past (lines 155-163).
IsTracked(in, n, i) ==
    /\ ~IsSkippedFakeRet(in, n, final_states(in, n)[i])
    /\ corresponding_successors(in, n, final_states(in, n)[i]) # {}

\* Lines 137-153: pop a node and make sure it has a stored dict.
Pop ==
    /\ pc = "loop"
    /\ worklist # <<>>
    /\ node' = Head(worklist)
    /\ worklist' = Tail(worklist)
    /\ worklist_set' = worklist_set \ {Head(worklist)}
    /\ live_defs_per_node' = IF Head(worklist) \in DOMAIN live_defs_per_node THEN live_defs_per_node
                             ELSE DictPut(live_defs_per_node, Head(worklist), EmptyDict)
    /\ si' = 1
    /\ pc' = "states"
    /\ UNCHANGED <<inp, heap, graph, ai, live_defs, temps, temps_to_edges, regs_to_edges, tracked, offers, requeued>>

\* Line 137: the worklist is empty, _construct returns.
Terminate ==
    /\ pc = "loop"
    /\ worklist = <<>>
    /\ pc' = "done"
    /\ UNCHANGED <<inp, worklist, worklist_set, live_defs_per_node, heap, graph, node, si, ai,
                   live_defs, temps, temps_to_edges, regs_to_edges, tracked, offers, requeued>>

\* Line 154: the for loop over the final states is exhausted.
EndStates ==
    /\ pc = "states"
    /\ si > Len(final_states(inp, node))
    /\ pc' = "loop"
    /\ si' = 0
    /\ UNCHANGED <<inp, worklist, worklist_set, live_defs_per_node, heap, graph, node, ai,
                   live_defs, temps, temps_to_edges, regs_to_edges, tracked, offers, requeued>>

\* Lines 155-157: a fall-through-after-call state beside other states.
SkipFakeRet ==
    /\ pc = "states"
    /\ si <= Len(final_states(inp, node))
    /\ IsSkippedFakeRet(inp, node, CurState)
    /\ si' = si + 1
    /\ UNCHANGED <<inp, worklist, worklist_set, live_defs_per_node, heap, graph, pc, node, ai,
                   live_defs, temps, temps_to_edges, regs_to_edges, tracked, offers, requeued>>

\* Lines 161-163: no successor of the node is at the state's target.
SkipNoSuccessor ==
    /\ pc = "states"
    /\ si <= Len(final_states(inp, node))
    /\ ~IsSkippedFakeRet(inp, node, CurState)
    /\ corresponding_successors(inp, node, CurState) = {}
    /\ si' = si + 1
    /\ UNCHANGED <<inp, worklist, worklist_set, live_defs_per_node, heap, graph, pc, node, ai,
                   live_defs, temps, temps_to_edges, regs_to_edges, tracked, offers, requeued>>

\* A _track that keeps the temps of the replay before.
StaleTemps(old) == old

\* Line 217: temps = {}; old is what the name held before.
NewTemps(old) == EmptyDict

\* live_defs.copy(): every entry of the copy is the stored set object itself.
CopyDict(stored) == [v \in DOMAIN stored |-> SharedSet(stored[v])]

\* Lines 166, 211-223: _track is entered with the dict stored for the node.
BeginTrack ==
    /\ pc = "states"
    /\ si <= Len(final_states(inp, node))
    /\ IsTracked(inp, node, si)
    /\ live_defs' = CopyDict(live_defs_per_node[node])
    /\ temps' = NewTemps(temps)
    /\ temps_to_edges' = EmptyDict
    /\ regs_to_edges' = EmptyDict
    /\ ai' = 1
    /\ pc' = "track"
    /\ tracked' = tracked \cup {<<node, si>>}
    /\ UNCHANGED <<inp, worklist, worklist_set, live_defs_per_node, heap, graph, node, si, offers, requeued>>

CurActions == action_list(inp, node, si)

CurTrack == TrackState(live_defs, temps, temps_to_edges, regs_to_edges, graph, {})

\* A _kill that empties the stored set object and puts the code location in
\* it, where line 409 binds a new set.
KillInPlace(h, stored, ld) ==
    [k \in DOMAIN h |->
        IF \E v \in DOMAIN stored \cap DOMAIN ld : stored[v] = k /\ ld[v].fresh
        THEN UNION {ld[v].locs : v \in {x \in DOMAIN stored \cap DOMAIN ld : stored[x] = k /\ ld[x].fresh}}
        ELSE h[k]]

\* Lines 212, 409: the replay works on a copy of the stored dict, and _kill
\* binds a new set to an entry of the copy (ld); the set objects that the
\* stored dicts refer to are as they were.
SetObjectsAfterKill(h, stored, ld) == h

\* One turn of the loop of line 260, for an action of type ty.
TrackStep(ty) ==
    /\ pc = "track"
    /\ ai <= Len(CurActions)
    /\ CurActions[ai].type = ty
    /\ LET t == TrackAction(CurTrack, CurActions[ai], heap, inp.keep_data)
       IN /\ live_defs' = t.live_defs
          /\ temps' = t.temps
          /\ temps_to_edges' = t.temps_to_edges
          /\ regs_to_edges' = t.regs_to_edges
          /\ graph' = t.graph
          /\ offers' = offers \cup t.offered
          /\ heap' = SetObjectsAfterKill(heap, live_defs_per_node[node], t.live_defs)
    /\ ai' = ai + 1
    /\ UNCHANGED <<inp, worklist, worklist_set, live_defs_per_node, pc, node, si, tracked, requeued>>

\* Lines 267-299.
TrackMem == TrackStep("mem")

\* Lines 301-320.
TrackReg == TrackStep("reg")

\* Lines 322-335.
TrackTmp == TrackStep("tmp")

\* Lines 337-347.
TrackExit == TrackStep("exit")

\* Lines 349-355: the pending groups are emitted and _track returns live_defs.
EndTrack ==
    /\ pc = "track"
    /\ ai > Len(CurActions)
    /\ graph' \in FinalDump(CurTrack)
    /\ offers' = offers \cup Pending(regs_to_edges) \cup Pending(temps_to_edges)
    /\ pc' = "merge"
    /\ UNCHANGED <<inp, worklist, worklist_set, live_defs_per_node, heap, node, si, ai, live_defs,
                   temps, temps_to_edges, regs_to_edges, tracked, requeued>>

\* The successor a tracked final state leads to (line 164).
successing_node(in, n, i) == CHOOSE x \in corresponding_successors(in, n, final_states(in, n)[i]) : TRUE

\* Lines 168-199: merge new_defs into the successor's dict, re-enqueue.
MergeDefs ==
    /\ pc = "merge"
    /\ LET succ == successing_node(inp, node, si)
           m == Merge(live_defs_per_node, heap, live_defs, succ)
           q == IF m.changed THEN ReEnqueue(inp, Queue(worklist, worklist_set), succ)
                ELSE Queue(worklist, worklist_set)
       IN /\ live_defs_per_node' = m.live_defs_per_node
          /\ heap' = m.heap
          /\ worklist' = q.worklist
          /\ worklist_set' = q.worklist_set
          /\ requeued' = requeued \cup (q.worklist_set \ worklist_set)
    /\ si' = si + 1
    /\ pc' = "states"
    /\ UNCHANGED <<inp, graph, node, ai, live_defs, temps, temps_to_edges, regs_to_edges, tracked,
                   offers>>

Next ==
    \/ Pop
    \/ Terminate
    \/ EndStates
    \/ SkipFakeRet
    \/ SkipNoSuccessor
    \/ BeginTrack
    \/ TrackMem
    \/ TrackReg
    \/ TrackTmp
    \/ TrackExit
    \/ EndTrack
    \/ MergeDefs

Spec == Init /\ [][Next]_vars

\* ------------------------------------------------------- reading the input
NodesOf(in) == 1..in.cfg.n

StateIndices(in, n) == 1..Len(final_states(in, n))

\* The CFG edges that a final state which is not skipped takes.
TakenEdges(in) ==
    {<<n, successing_node(in, n, i)>> : <<n, i>> \in {x \in NodesOf(in) \X (1..2) :
                                                       /\ x[2] \in StateIndices(in, x[1])
                                                       /\ IsTracked(in, x[1], x[2])}}

\* All CFG edges.
CfgEdges(in) == {x \in NodesOf(in) \X NodesOf(in) : x[2] \in successors(in, x[1])}

RECURSIVE Closure(_, _)
Closure(edges, set) ==
    LET more == set \cup {e[2] : e \in {x \in edges : x[1] \in set}}
    IN IF more = set THEN set ELSE Closure(edges, more)

\* The nodes reached from n over one edge or more.
ReachPlus(edges, n) == Closure(edges, {e[2] : e \in {x \in edges : x[1] = n}})

\* The Variables an action reads or writes.
VarsOfAction(a) ==
    CASE a.type = "reg" -> {SimRegisterVariable(a.offset, a.size)}
      [] a.type = "mem" -> {SimMemoryVariable(a.addrs[k], a.size) : k \in 1..Len(a.addrs)}
      [] OTHER -> {}

IsWriteOf(a, v) == a.action = "write" /\ v \in VarsOfAction(a)

IsReadOf(a, v) == a.action = "read" /\ v \in VarsOfAction(a)

\* The trace of the block a code location lies in.
TraceAt(in, loc) == Block(in.prog[loc[1]], loc[1])

AllVars(in) == UNION {VarsOfAction(Block(in.prog[n], n)[k]) :
                        <<n, k>> \in {x \in NodesOf(in) \X (1..8) : x[2] <= Len(Block(in.prog[x[1]], x[1]))}}

\* ------------------------------------------------------- C2
\* In the trace tr, a write of v at location s comes before a read of v at t.
PrecedesInTrace(tr, s, t, v) ==
    \E i, j \in 1..Len(tr) : /\ i < j
                             /\ tr[i].loc = s /\ IsWriteOf(tr[i], v)
                             /\ tr[j].loc = t /\ IsReadOf(tr[j], v)

\* Edge e is a def -> use pair of some Variable whose definition can reach the use.
IsDefUse(in, e) ==
    \E v \in AllVars(in) :
        /\ \E k \in 1..Len(TraceAt(in, e.src)) :
              TraceAt(in, e.src)[k].loc = e.src /\ IsWriteOf(TraceAt(in, e.src)[k], v)
        /\ \E k \in 1..Len(TraceAt(in, e.dst)) :
              TraceAt(in, e.dst)[k].loc = e.dst /\ IsReadOf(TraceAt(in, e.dst)[k], v)
        /\ \/ e.src[1] = e.dst[1] /\ PrecedesInTrace(TraceAt(in, e.src), e.src, e.dst, v)
           \/ e.dst[1] \in ReachPlus(TakenEdges(in), e.src[1])

\* C2: every register- or memory-labelled edge of the graph is a def -> use
\* pair of one Variable: its source writes the Variable, its target reads it,
\* and the source precedes the target in one trace or the target's node is
\* reachable from the source's node over CFG edges that tracked states take.
C2_EdgesAreDefUse ==
    \A e \in graph : e.labels.type \in {"reg", "mem"} => IsDefUse(inp, e)

\* ------------------------------------------------------- C3
EdgesBetween(g, s, t) == {e \in g : e.src = s /\ e.dst = t}

\* The kinds of block that read register R0 (4 bytes) at statement 0 and do
\* not write it.
ReadersOfR0 == {"use", "copy", "mem"}

\* Scenario A: two nodes, node 1 writes R0 at (1, 2) and transfers to node 2,
\* which reads R0 at (2, 0).
IsScenarioA(in) ==
    /\ in.cfg.n = 2
    /\ in.prog[1] = "def"
    /\ in.prog[2] \in ReadersOfR0
    /\ <<1, 2>> \in TakenEdges(in)

\* C3: after construction on scenario A the graph holds exactly one edge
\* (1, 2) -> (2, 0), a register dependence, and no other register dependence.
C3_ScenarioA ==
    (pc = "done" /\ IsScenarioA(inp)) =>
        /\ Cardinality(EdgesBetween(graph, CodeLocation(1, 2), CodeLocation(2, 0))) = 1
        /\ \A e \in graph : e.labels.type = "reg" <=>
                               (e.src = CodeLocation(1, 2) /\ e.dst = CodeLocation(2, 0))

\* ------------------------------------------------------- C4
\* Scenario C: the diamond, nodes 2 and 3 write R0, node 4 reads it.
IsScenarioC(in) ==
    /\ in.cfg = Diamond
    /\ in.prog[2] = "def"
    /\ in.prog[3] = "def"
    /\ in.prog[4] \in ReadersOfR0

\* C4: after construction on scenario C exactly two edges lead into the read
\* at (4, 0), one from each writer, both register dependences.
C4_ScenarioC ==
    (pc = "done" /\ IsScenarioC(inp)) =>
        /\ {e.src : e \in {x \in graph : x.dst = CodeLocation(4, 0)}}
              = {CodeLocation(2, 2), CodeLocation(3, 2)}
        /\ Cardinality({x \in graph : x.dst = CodeLocation(4, 0)}) = 2
        /\ \A e \in graph : e.dst = CodeLocation(4, 0) => e.labels.type = "reg"

\* ------------------------------------------------------- C5
\* The index of the last write of v before position j of trace tr, 0 if none.
LastWriteBefore(tr, j, v) ==
    LET ws == {i \in 1..(j - 1) : IsWriteOf(tr[i], v)}
    IN IF ws = {} THEN 0 ELSE CHOOSE i \in ws : \A k \in ws : k <= i

\* The CFG edges that do not touch node d.
EdgesAvoiding(in, d) == {e \in CfgEdges(in) : e[1] # d /\ e[2] # d}

WritesVar(in, n, v) == \E k \in 1..Len(Block(in.prog[n], n)) : IsWriteOf(Block(in.prog[n], n)[k], v)

\* Every CFG path from the entry to node n runs through node d, whose trace
\* writes v, and no other node from which n can be reached without passing d
\* writes v.
Covers(in, d, v, n) ==
    /\ d # n
    /\ WritesVar(in, d, v)
    /\ d = 1 \/ (n # 1 /\ n \notin ReachPlus(EdgesAvoiding(in, d), 1))
    /\ \A x \in NodesOf(in) \ {d} :
          WritesVar(in, x, v) => n \notin ReachPlus(EdgesAvoiding(in, d), x)

\* The location of the last write of v in the trace of node d.
KillingWrite(in, d, v) ==
    LET tr == Block(in.prog[d], d)
    IN tr[LastWriteBefore(tr, Len(tr) + 1, v)].loc

\* The reaching definitions a lookup of v in the replay's live_defs returns.
Reaching(v) == IF v \in DOMAIN live_defs THEN Deref(heap, live_defs[v]) ELSE {}

\* C5: when the replay is about to look up a read of v, the definitions it
\* finds are {L} if a write of v at L precedes the read in the trace, and no
\* other than L if every path to the node runs through the write at L with
\* no further write of v.
C5_KillCorrect ==
    (pc = "track" /\ ai <= Len(CurActions) /\ CurActions[ai].action = "read"
        /\ CurActions[ai].type \in {"reg", "mem"}) =>
        \A v \in VarsOfAction(CurActions[ai]) :
            LET w == LastWriteBefore(CurActions, ai, v)
            IN IF w > 0 THEN Reaching(v) = {CurActions[w].loc}
               ELSE \A d \in NodesOf(inp) :
                       Covers(inp, d, v, node) => Reaching(v) \subseteq {KillingWrite(inp, d, v)}

\* ------------------------------------------------------- C6
\* C6: the graph holds at most one edge for each pair (source, target).
C6_NoDuplicateEdges ==
    \A e1, e2 \in graph : (e1.src = e2.src /\ e1.dst = e2.dst) => e1 = e2

\* An edge tuple was handed to _add_edge while the graph held another edge
\* for its pair.
C6_Witness == \E o \in offers : o \notin graph /\ HasEdge(graph, o.src, o.dst)

\* ------------------------------------------------------- C7
\* Label merging: the labels of every edge tuple handed to
\* _add_edge are kept on the edge of its pair.
LabelsKept(o, e) ==
    /\ e.src = o.src /\ e.dst = o.dst
    /\ e.labels.type = o.labels.type
    /\ e.labels.data = o.labels.data
    /\ \A k \in 1..Len(o.labels.subtype) : \E j \in 1..Len(e.labels.subtype) :
           e.labels.subtype[j] = o.labels.subtype[k]

LastTmpWriteBefore(tr, j, tmp) ==
    LET ws == {i \in 1..(j - 1) : tr[i].type = "tmp" /\ tr[i].action = "write" /\ tr[i].tmp = tmp}
    IN IF ws = {} THEN 0 ELSE CHOOSE i \in ws : \A k \in ws : k <= i

\* C8: after the replay of a trace, for every control-transfer action at E
\* and every temporary its target depends on, the graph holds an edge from
\* the location of the last write of the temporary to E, and the edge is
\* labelled as a control-transfer dependence.
C8_ExitEdgeLabelled ==
    pc = "merge" =>
        \A j \in 1..Len(CurActions) :
            CurActions[j].type = "exit" =>
                \A k \in 1..Len(CurActions[j].tmp_deps) :
                    LET w == LastTmpWriteBefore(CurActions, j, CurActions[j].tmp_deps[k])
                        es == EdgesBetween(graph, CurActions[w].loc, CurActions[j].loc)
                    IN es # {} /\ \A e \in es : e.labels.type = "exit"

\* ------------------------------------------------------- C9
\* _track as one function: the loop of line 260 from action k on.
RECURSIVE ReplayFrom(_, _, _, _, _)
ReplayFrom(t, actions, k, h, keep_data) ==
    IF k > Len(actions) THEN t
    ELSE ReplayFrom(TrackAction(t, actions[k], h, keep_data), actions, k + 1, h, keep_data)

\* The dict stored for node n, empty if the node has none yet (lines 150-151).
Stored(ldpn, n) == IF n \in DOMAIN ldpn THEN ldpn[n] ELSE EmptyDict

\* _track(state, live_defs_per_node[n]) on the graph g, up to the final dump.
Replay(in, n, i, ldpn, h, g) ==
    ReplayFrom(TrackState(CopyDict(Stored(ldpn, n)), EmptyDict, EmptyDict, EmptyDict, g, {}),
               action_list(in, n, i), 1, h, in.keep_data)

\* Replaying final state i of node n changes neither the dict stored for the
\* successor nor the graph.
IsStable(in, n, i, ldpn, h, g) ==
    LET t == Replay(in, n, i, ldpn, h, g)
        next == Stored(ldpn, successing_node(in, n, i))
    IN /\ \A v \in DOMAIN t.live_defs :
             v \in DOMAIN next /\ Deref(h, t.live_defs[v]) \subseteq h[next[v]]
       /\ FinalDump(t) = {g}

\* C9: when the worklist has become empty the result is a fixpoint: for every
\* node reachable from the entry and every final state of it that is not
\* skipped, a replay adds no definition to the successor's stored dict and no
\* edge to the graph.
C9_Fixpoint ==
    pc = "done" =>
        \A n \in {1} \cup ReachPlus(CfgEdges(inp), 1) :
            \A i \in StateIndices(inp, n) :
                IsTracked(inp, n, i) => IsStable(inp, n, i, live_defs_per_node, heap, graph)

\* ------------------------------------------------------- C10
\* Action k of trace tr writes temporary tmp at location loc.
IsTmpWriteAt(tr, k, tmp, loc) ==
    tr[k].type = "tmp" /\ tr[k].action = "write" /\ tr[k].tmp = tmp /\ tr[k].loc = loc

\* C10: every temporary-labelled edge a step inserts has as source the
\* location of a write of the same temporary that comes earlier in the trace
\* being replayed, and the temporary-definer map holds nothing but the
\* writes of the trace being replayed: it is empty when a replay starts.
C10_TempsLocal ==
    [][/\ \A e \in graph' \ graph :
             e.labels.type = "tmp" =>
                 /\ pc = "track"
                 /\ \E k \in 1..Len(CurActions) :
                        k < ai /\ IsTmpWriteAt(CurActions, k, e.labels.data.id, e.src)
       /\ pc' = "track" =>
             \A tmp \in DOMAIN temps' :
                 \E k \in 1..Len(action_list(inp, node', si')) :
                     k < ai' /\ IsTmpWriteAt(action_list(inp, node', si'), k, tmp, temps'[tmp])]_vars

\* A replay has inserted a temporary-labelled edge after another trace, which
\* writes temporaries too, was replayed.
C10_Witness ==
    /\ pc = "track"
    /\ \E e \in graph : e.labels.type = "tmp" /\ e.dst[1] = node
    /\ \E x \in tracked : x[1] # node /\ inp.prog[x[1]] \in {"use", "copy", "mem"}

\* ------------------------------------------------------- C1
\* The CFGs with a cycle, on which a merge puts nodes back on the worklist.
LoopInputs ==
    {in \in Inputs : /\ in.cfg \in {Ring(2), CallCfg}
                     /\ ~in.keep_data
                     /\ Cardinality({n \in 1..in.cfg.n : in.prog[n] # "nop"}) <= MaxLoopActive}

LoopInit == inp \in LoopInputs /\ Init

\* _construct is one sequential loop: a step that can be taken is taken.
LoopSpec == LoopInit /\ [][Next]_vars /\ WF_vars(Next)

\* C1: the worklist loop terminates: the worklist becomes empty and
\* _construct returns.
C1_Terminates == <>(pc = "done")

\* The loop has ended after a merge put a node back on the worklist.
C1_Witness == pc = "done" /\ worklist = <<>> /\ requeued # {}

\* ------------------------------------------------------- C11
\* The nodes whose trace _track was called for.
TrackedNodes == {x[1] : x \in tracked}

\* The trace of loc's block has, at loc, an action that satisfies Test.
HasActionAt(in, loc, Test(_)) ==
    \E k \in 1..Len(TraceAt(in, loc)) : TraceAt(in, loc)[k].loc = loc /\ Test(TraceAt(in, loc)[k])

\* A register or memory edge: a write of a Variable of the edge's type at its
\* source, replayed before, and a read of the same Variable at its target.
IsVariableEdge(in, e) ==
    \E v \in AllVars(in) :
        /\ v.kind = e.labels.type
        /\ HasActionAt(in, e.src, LAMBDA a : IsWriteOf(a, v))
        /\ HasActionAt(in, e.dst, LAMBDA a : IsReadOf(a, v))
        /\ e.src[1] \in TrackedNodes /\ e.dst[1] \in TrackedNodes

\* A temporary or control-transfer edge: in one trace, a write of the
\* temporary at the source comes before an action at the target that reads
\* it (a temporary read) or depends on it (a control transfer).
IsTemporaryEdge(in, e) ==
    LET tr == TraceAt(in, e.dst)
        tmp == e.labels.data.id
    IN /\ e.src[1] = e.dst[1]
       /\ e.dst[1] \in TrackedNodes
       /\ \E k, j \in 1..Len(tr) :
             /\ k < j
             /\ IsTmpWriteAt(tr, k, tmp, e.src)
             /\ tr[j].loc = e.dst
             /\ IF e.labels.type = "tmp"
                THEN tr[j].type = "tmp" /\ tr[j].action = "read" /\ tr[j].tmp = tmp
                ELSE tr[j].type = "exit" /\ \E d \in 1..Len(tr[j].tmp_deps) : tr[j].tmp_deps[d] = tmp

\* C11: every edge of the graph leads from the code location of a write
\* action that was replayed before (a register or memory write, or a
\* temporary write of the same trace) to the code location of the read or
\* control-transfer action that consumed the definition.
C11_EdgeEndpoints ==
    \A e \in graph :
        IF e.labels.type \in {"reg", "mem"} THEN IsVariableEdge(inp, e) ELSE IsTemporaryEdge(inp, e)

\* The graph holds a memory edge, a register edge between two nodes and a
\* control-transfer edge.
C11_Witness ==
    /\ \E e \in graph : e.labels.type = "mem"
    /\ \E e \in graph : e.labels.type = "reg" /\ e.src[1] # e.dst[1]
    /\ \E e \in graph : e.labels.type = "exit"

\* ------------------------------------------------------- C12
\* The merge the step at pc = "merge" performs changes the successor's dict.
MergeChanges ==
    /\ pc = "merge"
    /\ Merge(live_defs_per_node, heap, live_defs, successing_node(inp, node, si)).changed

\* C12: when a merge changes the stored dict of the successor, the worklist
\* holds, at the end of that step, the successor and every node that can be
\* reached from the successor in the CFG.
C12_ReachableQueued ==
    [][MergeChanges =>
          LET succ == successing_node(inp, node, si)
          IN ({succ} \cup ReachPlus(CfgEdges(inp), succ)) \subseteq worklist_set']_vars

\* ------------------------------------------------------- C13
\* _construct as one function of the input and the initial worklist.  r holds
\* worklist, worklist_set, live_defs_per_node, heap and graph.
LoopState(wl, ws, ldpn, h, g) ==
    [worklist |-> wl, worklist_set |-> ws, live_defs_per_node |-> ldpn, heap |-> h, graph |-> g]

\* Lines 155-199 for final state i of node n.
ProcessState(in, r, n, i) ==
    IF ~IsTracked(in, n, i) THEN r
    ELSE LET t == Replay(in, n, i, r.live_defs_per_node, r.heap, r.graph)
             g == CHOOSE x \in FinalDump(t) : TRUE
             succ == successing_node(in, n, i)
             m == Merge(r.live_defs_per_node, r.heap, t.live_defs, succ)
             q == IF m.changed THEN ReEnqueue(in, Queue(r.worklist, r.worklist_set), succ)
                  ELSE Queue(r.worklist, r.worklist_set)
         IN LoopState(q.worklist, q.worklist_set, m.live_defs_per_node, m.heap, g)

\* Line 154: the final states of node n from index i on.
RECURSIVE ProcessStates(_, _, _, _)
ProcessStates(in, r, n, i) ==
    IF i > Len(final_states(in, n)) THEN r
    ELSE ProcessStates(in, ProcessState(in, r, n, i), n, i + 1)

\* Lines 137-199: the while loop.
RECURSIVE RunLoop(_, _)
RunLoop(in, r) ==
    IF r.worklist = <<>> THEN r
    ELSE LET n == Head(r.worklist)
             ldpn == IF n \in DOMAIN r.live_defs_per_node THEN r.live_defs_per_node
                     ELSE DictPut(r.live_defs_per_node, n, EmptyDict)
             popped == LoopState(Tail(r.worklist), r.worklist_set \ {n}, ldpn, r.heap, r.graph)
         IN RunLoop(in, ProcessStates(in, popped, n, 1))

Run(in, wl) == RunLoop(in, LoopState(wl, SetOf(wl), EmptyDict, EmptyDict, {}))

\* The code locations a stored dict holds for each of its Variables.
Snapshot(ldpn, h, n) == [v \in DOMAIN ldpn[n] |-> h[ldpn[n][v]]]

\* What a run leaves: the per-node snapshots and the edges of the graph.
Outcome(ldpn, h, g) == [snapshots |-> [n \in DOMAIN ldpn |-> Snapshot(ldpn, h, n)], graph |-> g]

OutcomeOfRun(in, wl) ==
    LET r == Run(in, wl) IN Outcome(r.live_defs_per_node, r.heap, r.graph)

\* C13: the result does not depend on the order of the initial worklist: for
\* the CFG and traces the construction starts with, every order of the nodes
\* on the initial worklist ends with the same per-node snapshots and the
\* same edges.
C13_OrderIndependent ==
    (pc = "loop" /\ node = 0) =>
        \A wl \in Orders(worklist_set) : OutcomeOfRun(inp, wl) = OutcomeOfRun(inp, worklist)

\* ------------------------------------------------------- C14
\* The target of final state i of node n is no successor of n in the CFG.
HasNoTarget(in, n, i) == final_states(in, n)[i].ip \notin successors(in, n)

\* Final state i of node n is a fall-through-after-call state and n has a
\* state that is none.
IsFakeRetBesideTransfer(in, n, i) ==
    /\ final_states(in, n)[i].jumpkind = "Ijk_FakeRet"
    /\ \E k \in StateIndices(in, n) : final_states(in, n)[k].jumpkind # "Ijk_FakeRet"

\* The loop over the final states is at a state that is to be skipped.
AtSkippedState ==
    /\ pc = "states"
    /\ si \in StateIndices(inp, node)
    /\ HasNoTarget(inp, node, si) \/ IsFakeRetBesideTransfer(inp, node, si)

\* C14: a skipped final state has no effect: the step at a state whose
\* target is no successor of its node, or at a fall-through-after-call state
\* of a node that has a control-transfer state too, does not replay the
\* trace, changes neither the graph nor a stored dict nor the worklist, and
\* goes on to the next final state.
C14_SkipHasNoEffect ==
    [][AtSkippedState =>
          /\ pc' = "states" /\ si' = si + 1 /\ node' = node
          /\ UNCHANGED <<graph, live_defs_per_node, heap, worklist, worklist_set, tracked, offers,
                         requeued>>]_vars

\* Node 1 of CallCfg is past its fall-through-after-call state, after node 2,
\* whose first state has no target in the CFG, had its second state replayed
\* and edges were inserted.
C14_Witness ==
    /\ inp.cfg = CallCfg
    /\ pc = "states" /\ node = 1 /\ si = 3
    /\ <<2, 2>> \in tracked
    /\ graph # {}

\* ------------------------------------------------------- C15
\* The edge tuples pending in the groups of the replay.
PendingNow == Pending(regs_to_edges) \cup Pending(temps_to_edges)

\* C15: every edge candidate queued during a replay is in the graph when the
\* replay returns: the candidates of the groups that were emitted during
\* the replay and the candidates of the groups that were pending at the end
\* of the trace are edges of the graph, none is dropped.
C15_CandidatesEmitted ==
    pc = "merge" => (offers \cup PendingNow) \subseteq graph

\* The graph holds an edge for the pair of every candidate that was handed to
\* _add_edge or is pending when the replay returns.
EveryPairEmitted ==
    /\ \A o \in offers : HasEdge(graph, o.src, o.dst)
    /\ pc = "merge" => \A o \in PendingNow : HasEdge(graph, o.src, o.dst)

\* ------------------------------------------------------- C16
\* How often key occurs in the list deps.
Occurrences(deps, key) == Cardinality({i \in 1..Len(deps) : deps[i] = key})

\* seq continues pre by exactly n elements.
ExtendsBy(seq, pre, n) == Len(seq) = Len(pre) + n /\ SubSeq(seq, 1, Len(pre)) = pre

\* The pending edges of every group of dict_ get, in new_, one tag for every
\* occurrence of the group's key in the address and data dependencies.
TaggedOncePerDependency(dict_, new_, addr_deps, data_deps) ==
    \A key \in DOMAIN dict_ :
        \A e \in dict_[key] :
            \E e2 \in DictGet(new_, key) :
                /\ e2.src = e.src /\ e2.dst = e.dst
                /\ ExtendsBy(e2.labels.subtype, e.labels.subtype,
                             Occurrences(addr_deps, key) + Occurrences(data_deps, key))

\* C16: a memory action appends exactly one subtype tag for each of its
\* structural dependencies, after the tags that are there, to every pending
\* edge of the group of the register or temporary, also when the action
\* resolves to several addresses.
C16_OneTagPerDependency ==
    [][(pc = "track" /\ ai <= Len(CurActions) /\ CurActions[ai].type = "mem") =>
          /\ TaggedOncePerDependency(regs_to_edges, regs_to_edges',
                                     CurActions[ai].deps.addr_reg, CurActions[ai].deps.data_reg)
          /\ TaggedOncePerDependency(temps_to_edges, temps_to_edges',
                                     CurActions[ai].deps.addr_tmp, CurActions[ai].deps.data_tmp)]_vars

\* ------------------------------------------------------- C17
\* The definitions at code location c that reach the read a: the Variables a
\* reads whose looked-up set holds c.
MergedDefinitions(a, c) == {v \in VarsOfAction(a) : c \in Reaching(v)}

\* The label of the edge that the definitions merged carry, as claimed.
IsCountingLabel(labels, type_, merged) ==
    /\ labels.type = type_
    /\ IF inp.keep_data THEN labels.data \in merged /\ labels.count = NoCount
       ELSE labels.data = NoData /\ labels.count = Cardinality(merged) - 1

\* C17: the edge a read gets from a reaching code location carries, when data
\* is not kept, a counter that is 0 for one reaching definition and one more
\* for every further definition merged into the edge, and the Variable when
\* data is kept.  A memory read adds its edges at once, a register read
\* queues them in the group of its offset.
C17_CountsDefinitions ==
    [][(pc = "track" /\ ai <= Len(CurActions) /\ CurActions[ai].action = "read"
           /\ CurActions[ai].type \in {"reg", "mem"}) =>
          LET a == CurActions[ai]
          IN \A c \in UNION {Reaching(v) : v \in VarsOfAction(a)} :
                IF a.type = "mem"
                THEN ~HasEdge(graph, c, a.loc) =>
                        \E e \in graph' : /\ e.src = c /\ e.dst = a.loc
                                          /\ IsCountingLabel(e.labels, "mem", MergedDefinitions(a, c))
                ELSE \E e \in DictGet(regs_to_edges', a.offset) :
                        /\ e.src = c /\ e.dst = a.loc
                        /\ IsCountingLabel(e.labels, "reg", MergedDefinitions(a, c))]_vars

\* ------------------------------------------------------- C18
\* The Variables a write action kills in the copy: after the step the entry
\* of the copy holds the writing code location only.
KillsInCopy ==
    (pc = "track" /\ ai <= Len(CurActions) /\ CurActions[ai].action = "write"
        /\ CurActions[ai].type \in {"reg", "mem"}) =>
        \A v \in VarsOfAction(CurActions[ai]) :
            v \in DOMAIN live_defs' /\ Deref(heap', live_defs'[v]) = {CurActions[ai].loc}

\* C18: a replay does not modify the snapshot it is given: from the call of
\* _track to its return, the dict stored for the node has the same Variables
\* with the same definer sets; a write of the trace shows in the copy that
\* _track returns only.
C18_IncomingSnapshotKept ==
    [][/\ (pc = "track" \/ pc' = "track") =>
            /\ node \in DOMAIN live_defs_per_node /\ node \in DOMAIN live_defs_per_node'
            /\ Snapshot(live_defs_per_node', heap', node) = Snapshot(live_defs_per_node, heap, node)
       /\ KillsInCopy]_vars

\* A replay returns after it killed a Variable of the incoming snapshot: the
\* copy holds other definers for it than the stored dict.
C18_Witness ==
    /\ pc = "merge"
    /\ \E v \in DOMAIN live_defs_per_node[node] :
          /\ live_defs[v].fresh
          /\ live_defs[v].locs # heap[live_defs_per_node[node][v]]
          /\ heap[live_defs_per_node[node][v]] # {}

\* ------------------------------------------------------- C19
\* C19: a merge changes the snapshot of the successor only: the dict stored
\* for every other node, the node just replayed included when it is not the
\* successor, has the same Variables with the same definer sets after the
\* merge as before it.
C19_MergeChangesSuccessorOnly ==
    [][pc = "merge" =>
          \A n \in DOMAIN live_defs_per_node \ {successing_node(inp, node, si)} :
              /\ n \in DOMAIN live_defs_per_node'
              /\ Snapshot(live_defs_per_node', heap', n) = Snapshot(live_defs_per_node, heap, n)]_vars

\* ------------------------------------------------------- C20
\* The nodes the CFG reaches from the entry node, which is node 1.
ReachableNodes(in) == {1} \cup ReachPlus(CfgEdges(in), 1)

\* C20: when the worklist loop has ended, every node that the CFG reaches
\* from the entry and that has a final state which is not skipped had its
\* trace replayed.
C20_ReachableReplayed ==
    pc = "done" =>
        \A n \in ReachableNodes(inp) :
            (\E i \in StateIndices(inp, n) : IsTracked(inp, n, i)) => n \in TrackedNodes

====
